---- MODULE Spec2Model ----
(***************************************************************************)
(* Model of mcp_image_generator/server.py: the generate_image tool handler *)
(* and the process entry point main.                                       *)
(*                                                                         *)
(* A tool call is a task.  Its steps are the segments of the handler body  *)
(* between two awaits; every external call (genai.Client, the provider     *)
(* call, the fastmcp Image helper, ctx.info / ctx.warning / ctx.error)     *)
(* either returns or raises.  logger.* calls never raise.  The exceptions *)
(* are those `except Exception` catches; task cancellation and the         *)
(* framework's coercion of argument types are not modelled.                *)
(***************************************************************************)
EXTENDS Integers, Sequences, FiniteSets, TLC

VARIABLES MODEL, GEMINI_API_KEY, serving, configWrites, task

vars == <<MODEL, GEMINI_API_KEY, serving, configWrites, task>>

(***************************************************************************)
(* Bounds of the model.                                                    *)
(***************************************************************************)
MaxEntries == 2   \* longest provider response (generated_images)
MaxVaried  == 1   \* parameters in which a request differs from SunsetRequest

(***************************************************************************)
(* Program constants.                                                      *)
(***************************************************************************)
MaxPromptLen     == 1920
MinNumImages     == 1
MaxNumImages     == 4
DefaultNumImages == 4

DefaultModel  == "imagen-4.0-generate-001"
DefaultApiKey == "unknown"

Tasks == {"t1", "t2"}

(***************************************************************************)
(* Python values of the optional parameters: None, an int or a str.        *)
(***************************************************************************)
PyNone   == [t |-> "none", i |-> 0, s |-> ""]
PyInt(n) == [t |-> "int", i |-> n, s |-> ""]
PyStr(x) == [t |-> "str", i |-> 0, s |-> x]

ImageSizes        == {"1K", "2K"}
AspectRatios      == {"1:1", "3:4", "4:3", "9:16", "16:9"}
PersonGenerations == {"dont_allow", "allow_adult", "allow_all"}

\* A prompt is a text of a given length.
Prompts ==
    { [text |-> "sunset", len |-> 6],
      [text |-> "a red fox in snow", len |-> 17],
      [text |-> "longest", len |-> MaxPromptLen],
      [text |-> "too long", len |-> MaxPromptLen + 1] }

\* An optional parameter of a call is absent (<<>>) or supplied (<<value>>).
Supplied(S) == {<<>>} \cup { <<v>> : v \in S }

RawRequests ==
    [ prompt            : Prompts,
      image_size        : Supplied({PyNone} \cup { PyStr(x) : x \in ImageSizes \cup {"4K"} }),
      num_images        : Supplied({PyNone} \cup { PyInt(n) : n \in (MinNumImages - 1)..(MaxNumImages + 1) }),
      aspect_ratio      : Supplied({PyNone} \cup { PyStr(x) : x \in AspectRatios \cup {"2:1"} }),
      person_generation : Supplied({PyNone} \cup { PyStr(x) : x \in PersonGenerations \cup {"allow_none"} }) ]

Params == {"prompt", "image_size", "num_images", "aspect_ratio", "person_generation"}

\* The request that supplies only a prompt, and the fully specified scenario.
SunsetRequest ==
    [ prompt |-> [text |-> "sunset", len |-> 6],
      image_size |-> <<>>, num_images |-> <<>>,
      aspect_ratio |-> <<>>, person_generation |-> <<>> ]

FoxRequest ==
    [ prompt |-> [text |-> "a red fox in snow", len |-> 17],
      image_size |-> <<PyStr("1K")>>, num_images |-> <<PyInt(2)>>,
      aspect_ratio |-> <<PyStr("1:1")>>, person_generation |-> <<PyStr("allow_adult")>> ]

\* Requests of the sequential specification: those that differ from
\* SunsetRequest in at most MaxVaried parameters (by any value, valid or
\* not, or null), and the scenario.
Requests ==
    { r \in RawRequests : Cardinality({ f \in Params : r[f] # SunsetRequest[f] }) <= MaxVaried }
        \cup {FoxRequest}

\* Requests of the concurrent specification.
ConcRequests == {SunsetRequest, FoxRequest}

(***************************************************************************)
(* Argument validation and defaults, lines 21-39.                          *)
(***************************************************************************)
\* Annotated[Optional[Literal[...]], ...]: None or one of the literals.
OptionalLiteral(v, lits) == v.t = "none" \/ (v.t = "str" /\ v.s \in lits)

\* Annotated[Optional[int], Field(ge=1, le=4)]: None or an int in range.
OptionalIntInRange(v, lo, hi) == v.t = "none" \/ (v.t = "int" /\ lo <= v.i /\ v.i <= hi)

\* Effective with the provider's aspect ratio as the default instead of "16:9".
Effective_squareDefault(raw) ==
    [ prompt            |-> raw.prompt,
      image_size        |-> IF raw.image_size = <<>> THEN PyStr("1K") ELSE raw.image_size[1],
      num_images        |-> IF raw.num_images = <<>> THEN PyInt(DefaultNumImages) ELSE raw.num_images[1],
      aspect_ratio      |-> IF raw.aspect_ratio = <<>> THEN PyStr("1:1") ELSE raw.aspect_ratio[1],
      person_generation |-> IF raw.person_generation = <<>> THEN PyStr("allow_adult")
                            ELSE raw.person_generation[1] ]

\* The parameter as the handler body sees it: the default when absent.
Effective(raw) ==
    [ prompt            |-> raw.prompt,
      image_size        |-> IF raw.image_size = <<>> THEN PyStr("1K") ELSE raw.image_size[1],
      num_images        |-> IF raw.num_images = <<>> THEN PyInt(DefaultNumImages) ELSE raw.num_images[1],
      aspect_ratio      |-> IF raw.aspect_ratio = <<>> THEN PyStr("16:9") ELSE raw.aspect_ratio[1],
      person_generation |-> IF raw.person_generation = <<>> THEN PyStr("allow_adult")
                            ELSE raw.person_generation[1] ]

\* Validate without the upper bound of num_images (le=4 forgotten).
Validate_noUpperBound(raw) ==
    /\ raw.prompt.len <= MaxPromptLen
    /\ raw.image_size # <<>> => OptionalLiteral(raw.image_size[1], ImageSizes)
    /\ raw.num_images # <<>> =>
          (raw.num_images[1].t = "none" \/ (raw.num_images[1].t = "int" /\ MinNumImages <= raw.num_images[1].i))
    /\ raw.aspect_ratio # <<>> => OptionalLiteral(raw.aspect_ratio[1], AspectRatios)
    /\ raw.person_generation # <<>> => OptionalLiteral(raw.person_generation[1], PersonGenerations)

\* Supplied values are validated against the annotations; defaults are not.
Validate(raw) ==
    /\ raw.prompt.len <= MaxPromptLen
    /\ raw.image_size # <<>> => OptionalLiteral(raw.image_size[1], ImageSizes)
    /\ raw.num_images # <<>> => OptionalIntInRange(raw.num_images[1], MinNumImages, MaxNumImages)
    /\ raw.aspect_ratio # <<>> => OptionalLiteral(raw.aspect_ratio[1], AspectRatios)
    /\ raw.person_generation # <<>> => OptionalLiteral(raw.person_generation[1], PersonGenerations)

(***************************************************************************)
(* Events of one invocation, in program order: log lines, notifications    *)
(* on the calling context (ok = the call returned, not ok = it raised),    *)
(* and the provider request.                                               *)
(***************************************************************************)
Event(kind, msg, n, e, ok) == [kind |-> kind, msg |-> msg, n |-> n, e |-> e, ok |-> ok]

LogInfo(msg)      == Event("logger.info", msg, 0, "", TRUE)
LogError(msg, e)  == Event("logger.error", msg, 0, e, TRUE)
CtxInfo(msg, n, ok)  == Event("ctx.info", msg, n, "", ok)
CtxWarning(msg, ok)  == Event("ctx.warning", msg, 0, "", ok)
CtxError(msg, e, ok) == Event("ctx.error", msg, 0, e, ok)
RequestEvent      == Event("generate_images", "", 0, "", TRUE)

(***************************************************************************)
(* Provider responses (genai GenerateImagesResponse) and image content.    *)
(***************************************************************************)
ImageBytes == {"b1", "b2"}

\* A generated-image entry: its image is None (<<>>) or carries bytes.
Entries == { [image |-> <<>>] } \cup { [image |-> <<[image_bytes |-> b]>>] : b \in ImageBytes }

EntryLists == UNION { [1..n -> Entries] : n \in 0..MaxEntries }

\* generated_images is None (present = FALSE) or a list.
Responses ==
    { [present |-> FALSE, generated_images |-> <<>>] }
        \cup { [present |-> TRUE, generated_images |-> l] : l \in EntryLists }

\* NoImages as `response.generated_images is None`: an empty list passes.
NoImages_onlyNone(resp) == ~resp.present

\* `not response.generated_images`, line 65: None and [] are both falsy.
NoImages(resp) == ~resp.present \/ Len(resp.generated_images) = 0

\* Image(data=..., format="png"), line 74.
WrapImage(entry) == [data |-> entry.image[1].image_bytes, format |-> "png"]

\* Image.to_image_content(), line 76: base64 data and the MIME type of the format.
ToImageContent(img) ==
    [type |-> "image", data |-> <<"base64", img.data>>, mimeType |-> "image/" \o img.format]

\* WrapAll with `break` for `continue`: the loop stops at the first entry
\* whose image is None.
RECURSIVE WrapAll_break(_)
WrapAll_break(entries) ==
    IF entries = <<>> THEN <<>>
    ELSE IF Head(entries).image = <<>> THEN <<>>
    ELSE <<[data |-> Head(entries).image[1].image_bytes, format |-> "png"]>> \o WrapAll_break(Tail(entries))

\* The loop of lines 69-74: entries whose image is None are skipped.
RECURSIVE WrapAll(_)
WrapAll(entries) ==
    IF entries = <<>> THEN <<>>
    ELSE IF Head(entries).image = <<>> THEN WrapAll(Tail(entries))
    ELSE <<WrapImage(Head(entries))>> \o WrapAll(Tail(entries))

\* The comprehension of line 76.
ConvertAll(imgs) == [ i \in 1..Len(imgs) |-> ToImageContent(imgs[i]) ]

\* The call of lines 54-64 as the provider receives it.
GenerateImagesCall(model, args) ==
    [ model  |-> model,
      prompt |-> args.prompt,
      config |-> [ number_of_images  |-> args.num_images,
                   image_size        |-> args.image_size,
                   aspect_ratio      |-> args.aspect_ratio,
                   person_generation |-> args.person_generation,
                   output_mime_type  |-> "image/png" ] ]

(***************************************************************************)
(* The state of a task.  Optional components are <<>> or <<value>>.        *)
(***************************************************************************)
IdleTask ==
    [ pc |-> "idle", raw |-> <<>>, args |-> <<>>, client |-> <<>>, request |-> <<>>,
      nreq |-> 0, response |-> <<>>, images |-> <<>>, events |-> <<>>, exc |-> "",
      outcome |-> "none", result |-> <<>>, prev |-> "none" ]

Emit(t, evs) == [t EXCEPT !.events = @ \o evs]

\* The exception leaves the handler: the call ends in failure.
Propagate(t, e) == [t EXCEPT !.pc = "done", !.outcome = "raised", !.exc = e]

(***************************************************************************)
(* generate_image, lines 21-83, one operator per segment between awaits.   *)
(***************************************************************************)
\* The framework validates the arguments; an invalid call never reaches the body.
\* A valid one enters it: line 41.
Enter(t, raw) ==
    IF Validate(raw)
    THEN Emit([t EXCEPT !.pc = "create_client", !.raw = <<raw>>, !.args = <<Effective(raw)>>],
              <<LogInfo("Generating images with prompt")>>)
    ELSE [t EXCEPT !.pc = "done", !.raw = <<raw>>, !.outcome = "rejected", !.exc = "ValidationError"]

\* Lines 44-45 and 51: the client is built, the handler is about to await ctx.info.
ClientCreated(t, key) ==
    Emit([t EXCEPT !.pc = "ctx_info_request", !.client = <<[api_key |-> key]>>],
         <<LogInfo("Creating client"), LogInfo("making request")>>)

\* ClientFailed with the exception swallowed: the handler goes on to line 51.
ClientFailed_swallowed(t) ==
    [t EXCEPT !.pc = "ctx_info_request",
              !.events = @ \o <<LogInfo("Creating client"), LogInfo("making request")>>]

\* Lines 44-46: genai.Client raised; the handler is about to await ctx.error.
ClientFailed(t) ==
    Emit([t EXCEPT !.pc = "except_create", !.exc = "ClientError"], <<LogInfo("Creating client")>>)

\* Lines 47-49.
ExceptCreate(t, ok) ==
    IF ok
    THEN Propagate(Emit(t, <<CtxError("Failed to create Gemini client", t.exc, TRUE),
                             LogError("Failed to create Gemini client", t.exc)>>), t.exc)
    ELSE Propagate(Emit(t, <<CtxError("Failed to create Gemini client", t.exc, FALSE)>>),
                   "NotificationError")

\* Line 52, outside both try blocks.
InfoRequest(t, ok) ==
    IF ok
    THEN Emit([t EXCEPT !.pc = "generate_images"], <<CtxInfo("Making request to generate images", 0, TRUE)>>)
    ELSE Propagate(Emit(t, <<CtxInfo("Making request to generate images", 0, FALSE)>>),
                   "NotificationError")

\* Lines 54-64: the request goes out and the handler awaits the response.
Dispatch(t, model) ==
    Emit([t EXCEPT !.pc = "awaiting",
                   !.request = <<GenerateImagesCall(model, t.args[1])>>,
                   !.nreq = @ + 1],
         <<RequestEvent>>)

\* ProviderFailed with a retry: the handler issues the request again.
ProviderFailed_retry(t) ==
    IF t.nreq < 2 THEN [t EXCEPT !.pc = "generate_images"]
    ELSE [t EXCEPT !.pc = "except_generate", !.exc = "ProviderError"]

\* The awaited call raised: line 80.
ProviderFailed(t) == [t EXCEPT !.pc = "except_generate", !.exc = "ProviderError"]

\* The awaited call returned: lines 65 and 69-76.  wrapOk = the Image helper
\* did not raise (it raises, for one, when handed an image without bytes); it
\* is called only for entries that have an image.
ProviderReturned(t, resp, wrapOk) ==
    LET u == [t EXCEPT !.response = <<resp>>] IN
    IF NoImages(resp) THEN [u EXCEPT !.pc = "ctx_warning"]
    ELSE IF WrapAll(resp.generated_images) # <<>> /\ ~wrapOk
         THEN [u EXCEPT !.pc = "except_generate", !.exc = "ImageError"]
         ELSE [u EXCEPT !.pc = "ctx_info_done",
                        !.images = ConvertAll(WrapAll(resp.generated_images))]

\* Lines 66-67.
Warning(t, ok) ==
    [ Emit(t, <<CtxWarning("No images were generated.", ok)>>)
        EXCEPT !.pc = "except_generate", !.exc = IF ok THEN "ValueError" ELSE "NotificationError" ]

\* DeliveredCount as the number of entries the provider returned.
DeliveredCount_raw(t) == Len(t.response[1].generated_images)

\* The count stated by the final notification, line 77.
DeliveredCount(t) == Len(t.images)

\* Lines 77-78.
InfoDone(t, ok) ==
    IF ok
    THEN [ Emit(t, <<CtxInfo("Successfully generated images", DeliveredCount(t), TRUE)>>)
             EXCEPT !.pc = "done", !.outcome = "returned", !.result = t.images ]
    ELSE [ Emit(t, <<CtxInfo("Successfully generated images", DeliveredCount(t), FALSE)>>)
             EXCEPT !.pc = "except_generate", !.exc = "NotificationError" ]

\* ExceptGenerate without the logger.error of line 82.
ExceptGenerate_noLog(t, ok) ==
    IF ok
    THEN [t EXCEPT !.pc = "done", !.outcome = "raised",
                   !.events = @ \o <<CtxError("Failed to generate images", t.exc, TRUE)>>]
    ELSE [t EXCEPT !.pc = "done", !.outcome = "raised", !.exc = "NotificationError",
                   !.events = @ \o <<CtxError("Failed to generate images", t.exc, FALSE)>>]

\* Lines 81-83.
ExceptGenerate(t, ok) ==
    IF ok
    THEN Propagate(Emit(t, <<CtxError("Failed to generate images", t.exc, TRUE),
                             LogError("Failed to generate images", t.exc)>>), t.exc)
    ELSE Propagate(Emit(t, <<CtxError("Failed to generate images", t.exc, FALSE)>>),
                   "NotificationError")

\* The protocol layer answers the call; the task can serve the next one.
\* Nothing of the invocation is kept (prev only records, for the properties,
\* whether it failed after its request had gone out).
Finished(t) ==
    [IdleTask EXCEPT !.prev = IF t.outcome = "raised" /\ t.nreq > 0 THEN "request_failed" ELSE "other"]

(***************************************************************************)
(* Actions.                                                                *)
(***************************************************************************)
Models  == {DefaultModel, "imagen-custom"}
ApiKeys == {DefaultApiKey, "key-1"}

\* Responses of the concurrent specification.
ConcResponses ==
    { [present |-> TRUE, generated_images |-> <<>>],
      [present |-> TRUE, generated_images |-> <<[image |-> <<>>], [image |-> <<[image_bytes |-> "b1"]>>]>>] }

Init ==
    /\ MODEL = DefaultModel
    /\ GEMINI_API_KEY = DefaultApiKey
    /\ serving = FALSE
    /\ configWrites = 0
    /\ task = [p \in Tasks |-> IdleTask]

\* main, lines 117-130: assigns the globals, then blocks in mcp.run (under
\* either transport), which serves the calls.
Main ==
    /\ ~serving
    /\ \E model \in Models, api_key \in ApiKeys :
          /\ MODEL' = model
          /\ GEMINI_API_KEY' = api_key
    /\ configWrites' = configWrites + 1
    /\ serving' = TRUE
    /\ UNCHANGED task

\* Step that also resets the credential to its module default.
Step_resetsKey(p, t) ==
    /\ task' = [task EXCEPT ![p] = t]
    /\ GEMINI_API_KEY' = DefaultApiKey
    /\ UNCHANGED <<MODEL, serving, configWrites>>

\* A step of the handler: it changes its own task and no global.
Step(p, t) ==
    /\ task' = [task EXCEPT ![p] = t]
    /\ UNCHANGED <<MODEL, GEMINI_API_KEY, serving, configWrites>>

Call(p, reqs) ==
    /\ serving
    /\ task[p].pc = "idle"
    /\ \E raw \in reqs : task' = [task EXCEPT ![p] = Enter(task[p], raw)]
    /\ UNCHANGED <<MODEL, GEMINI_API_KEY, serving, configWrites>>

CreateClient(p) ==
    /\ task[p].pc = "create_client"
    /\ \/ Step(p, ClientCreated(task[p], GEMINI_API_KEY))
       \/ Step(p, ClientFailed(task[p]))

NotifyCreateError(p) ==
    /\ task[p].pc = "except_create"
    /\ \E ok \in BOOLEAN : Step(p, ExceptCreate(task[p], ok))

NotifyRequest(p) ==
    /\ task[p].pc = "ctx_info_request"
    /\ \E ok \in BOOLEAN : Step(p, InfoRequest(task[p], ok))

GenerateImages(p) ==
    /\ task[p].pc = "generate_images"
    /\ Step(p, Dispatch(task[p], MODEL))

ProviderResponse(p, resps) ==
    /\ task[p].pc = "awaiting"
    /\ \/ \E resp \in resps, wrapOk \in BOOLEAN : Step(p, ProviderReturned(task[p], resp, wrapOk))
       \/ Step(p, ProviderFailed(task[p]))

NotifyNoImages(p) ==
    /\ task[p].pc = "ctx_warning"
    /\ \E ok \in BOOLEAN : Step(p, Warning(task[p], ok))

NotifyDone(p) ==
    /\ task[p].pc = "ctx_info_done"
    /\ \E ok \in BOOLEAN : Step(p, InfoDone(task[p], ok))

NotifyGenerateError(p) ==
    /\ task[p].pc = "except_generate"
    /\ \E ok \in BOOLEAN : Step(p, ExceptGenerate(task[p], ok))

Finish(p) ==
    /\ task[p].pc = "done"
    /\ Step(p, Finished(task[p]))

Handler(p, resps) ==
    \/ CreateClient(p)
    \/ NotifyCreateError(p)
    \/ NotifyRequest(p)
    \/ GenerateImages(p)
    \/ ProviderResponse(p, resps)
    \/ NotifyNoImages(p)
    \/ NotifyDone(p)
    \/ NotifyGenerateError(p)
    \/ Finish(p)

\* One call at a time, any request.
Next == Main \/ Call("t1", Requests) \/ Handler("t1", Responses)

Spec == Init /\ [][Next]_vars

\* Two calls in flight, interleaved at every await.
NextConc == Main \/ (\E p \in Tasks : Call(p, ConcRequests) \/ Handler(p, ConcResponses))

SpecConc == Init /\ [][NextConc]_vars

(***************************************************************************)
(* Vocabulary of the properties.                                           *)
(***************************************************************************)
Has(t, kind) == \E i \in 1..Len(t.events) : t.events[i].kind = kind

Last(evs) == evs[Len(evs)]

IsLog(e) == e.kind \in {"logger.info", "logger.error"}

IsNotification(e) == e.kind \in {"ctx.info", "ctx.warning", "ctx.error"}

\* The events other than log lines: notifications and the provider request.
Observable(t) == SelectSeq(t.events, LAMBDA e : ~IsLog(e))

NumRequests(t) == Len(SelectSeq(t.events, LAMBDA e : e.kind = "generate_images"))

MakingRequestNote == CtxInfo("Making request to generate images", 0, TRUE)

\* The handler body ran and genai.Client raised.
ConstructionFailed(t) ==
    t.client = <<>> /\ t.pc \notin {"idle", "create_client"} /\ t.outcome # "rejected"

\* The provider returned a response with no generated-image entry.
ZeroEntries(t) ==
    t.response # <<>> /\ (~t.response[1].present \/ t.response[1].generated_images = <<>>)

\* The provider returned a response with at least one entry.
SomeEntries(t) ==
    t.response # <<>> /\ t.response[1].present /\ Len(t.response[1].generated_images) >= 1

\* The image content of the entries that carry bytes, in the provider's order.
ByteCarrying(t) == SelectSeq(t.response[1].generated_images, LAMBDA e : e.image # <<>>)

ExpectedContent(t) ==
    [ i \in 1..Len(ByteCarrying(t)) |->
        [type |-> "image", mimeType |-> "image/png",
         data |-> <<"base64", ByteCarrying(t)[i].image[1].image_bytes>>] ]

\* A value is in the domain as the spec states it.
InSpecDomain(a) ==
    /\ a.prompt.len <= 1920
    /\ a.num_images.t = "int" /\ a.num_images.i \in 1..4
    /\ a.image_size.t = "str" /\ a.image_size.s \in {"1K", "2K"}
    /\ a.aspect_ratio.t = "str" /\ a.aspect_ratio.s \in {"1:1", "3:4", "4:3", "9:16", "16:9"}
    /\ a.person_generation.t = "str"
    /\ a.person_generation.s \in {"dont_allow", "allow_adult", "allow_all"}

\* The same, with null admitted for the four optional parameters.
InSpecDomainOrNull(a) ==
    /\ a.prompt.len <= 1920
    /\ a.num_images.t = "none" \/ (a.num_images.t = "int" /\ a.num_images.i \in 1..4)
    /\ a.image_size.t = "none" \/ (a.image_size.t = "str" /\ a.image_size.s \in {"1K", "2K"})
    /\ a.aspect_ratio.t = "none"
          \/ (a.aspect_ratio.t = "str" /\ a.aspect_ratio.s \in {"1:1", "3:4", "4:3", "9:16", "16:9"})
    /\ a.person_generation.t = "none"
          \/ (a.person_generation.t = "str"
                /\ a.person_generation.s \in {"dont_allow", "allow_adult", "allow_all"})

\* The value of an optional parameter of a call: as supplied, else the default.
Given(field, default) == IF field = <<>> THEN default ELSE field[1]

\* What a call supplied, with the spec's defaults filled in.
AsCalled(raw) ==
    [ prompt            |-> raw.prompt,
      num_images        |-> Given(raw.num_images, PyInt(4)),
      image_size        |-> Given(raw.image_size, PyStr("1K")),
      aspect_ratio      |-> Given(raw.aspect_ratio, PyStr("16:9")),
      person_generation |-> Given(raw.person_generation, PyStr("allow_adult")) ]

(***************************************************************************)
(* Properties.                                                             *)
(***************************************************************************)

\* C1: every invocation of the handler body that terminates either returns
\* its image list, or raises after an error notification was sent on the
\* calling context (ctx.error called) and with no image list returned;
\* whichever step failed.
C1_ResultOrReportedError ==
    \A p \in Tasks : LET t == task[p] IN
        (t.pc = "done" /\ t.outcome # "rejected") =>
            \/ t.outcome = "returned" /\ t.exc = ""
            \/ t.outcome = "raised" /\ t.result = <<>> /\ Has(t, "ctx.error")

\* C2 (as stated): whenever a client was constructed or a request
\* dispatched, every field of the request is inside its domain: prompt of at
\* most 1920 characters, num_images an integer in 1..4, the three enumerated
\* parameters one of their literals.
C2_FieldsInDomain ==
    \A p \in Tasks : LET t == task[p] IN
        (t.client # <<>> \/ t.request # <<>>) => InSpecDomain(t.args[1])

\* C2 (amended): whenever the handler body ran (a client was constructed, a
\* request dispatched, anything logged or notified), every field is inside
\* its domain or, for the four optional parameters, null; the dispatched
\* request carries such values; and a call with a value outside (neither in
\* the domain nor null) is rejected with no client built, nothing dispatched
\* and nothing emitted.
C2_FieldsInDomainOrNull ==
    \A p \in Tasks : LET t == task[p] IN
        /\ (t.client # <<>> \/ t.request # <<>> \/ t.events # <<>>) =>
              /\ t.raw # <<>> /\ InSpecDomainOrNull(AsCalled(t.raw[1]))
              /\ InSpecDomainOrNull(t.args[1])
        /\ t.request # <<>> =>
              LET c == t.request[1].config IN
              InSpecDomainOrNull([ prompt |-> t.request[1].prompt,
                                   num_images |-> c.number_of_images,
                                   image_size |-> c.image_size,
                                   aspect_ratio |-> c.aspect_ratio,
                                   person_generation |-> c.person_generation ])
        /\ (t.raw # <<>> /\ ~InSpecDomainOrNull(AsCalled(t.raw[1]))) =>
              /\ t.pc = "done" /\ t.outcome = "rejected"
              /\ t.client = <<>> /\ t.request = <<>> /\ t.nreq = 0 /\ t.events = <<>>

\* A request was dispatched with num_images null.
C2_NullDispatched ==
    \E p \in Tasks :
        /\ task[p].request # <<>>
        /\ task[p].request[1].config.number_of_images = PyNone

\* C3: once the provider has returned a response with zero entries (an
\* empty or absent list), the handler calls ctx.warning and the invocation
\* ends by raising; it never returns a result, not even an empty list.
C3_EmptyResponseFails ==
    \A p \in Tasks : LET t == task[p] IN
        ZeroEntries(t) =>
            /\ t.pc \in {"ctx_warning", "except_generate", "done"}
            /\ t.pc # "ctx_warning" => Has(t, "ctx.warning")
            /\ t.pc = "done" => (t.outcome = "raised" /\ Has(t, "ctx.warning"))
            /\ t.outcome # "returned" /\ t.result = <<>> /\ t.images = <<>>

\* An invocation ended with "No images were generated." after an empty list.
C3_EmptyResponseFailed ==
    \E p \in Tasks : LET t == task[p] IN
        /\ ZeroEntries(t) /\ t.response[1].present
        /\ t.pc = "done" /\ t.outcome = "raised" /\ t.exc = "ValueError"

C6_AtMostOneRequest ==
    \A p \in Tasks : LET t == task[p] IN
        /\ t.nreq <= 1
        /\ NumRequests(t) = t.nreq
        /\ t.request # <<>> <=> t.nreq = 1
        /\ t.pc \in {"idle", "create_client", "ctx_info_request", "except_create", "generate_images"}
              => t.nreq = 0
        /\ t.pc \in {"awaiting", "ctx_warning", "ctx_info_done", "except_generate"} => t.nreq = 1
        /\ (t.pc = "done" /\ t.client # <<>>
              /\ \E i \in 1..Len(t.events) : t.events[i] = MakingRequestNote) => t.nreq = 1

\* After an invocation that dispatched and failed, the next one has
\* dispatched its own request.
C6_LaterInvocationDispatches ==
    \E p \in Tasks : LET t == task[p] IN
        t.prev = "request_failed" /\ t.nreq = 1 /\ t.pc = "awaiting"

\* C7: the model identifier and the credential are written once, by main,
\* before any call is served, and no step of any invocation changes them,
\* whatever its outcome and however two invocations interleave; every client
\* is built with the credential and every request dispatched with the model
\* identifier that main set.
C7_ConfigWrittenOnce ==
    /\ [](/\ serving => configWrites = 1
          /\ ~serving => (configWrites = 0 /\ \A p \in Tasks : task[p] = IdleTask)
          /\ \A p \in Tasks :
                /\ task[p].client # <<>> => task[p].client[1].api_key = GEMINI_API_KEY
                /\ task[p].request # <<>> => task[p].request[1].model = MODEL)
    /\ [][serving => (MODEL' = MODEL /\ GEMINI_API_KEY' = GEMINI_API_KEY
                        /\ configWrites' = configWrites /\ serving')]_vars

\* Under a configuration other than the defaults, one invocation awaits the
\* provider while the other has failed at client construction.
C7_ConcurrentInvocations ==
    /\ MODEL # DefaultModel /\ GEMINI_API_KEY # DefaultApiKey
    /\ task["t1"].pc = "awaiting"
    /\ task["t2"].pc = "done" /\ ConstructionFailed(task["t2"])

\* C8: the dispatched request carries the prompt unchanged, the four
\* parameters as the caller supplied them or else their defaults
\* (num_images 4, image_size "1K", aspect_ratio "16:9", person_generation
\* "allow_adult"), the process-wide model identifier, and output_mime_type
\* "image/png".
C8_RequestCarriesParameters ==
    \A p \in Tasks : LET t == task[p] IN
        t.request # <<>> =>
            LET r == t.request[1]
                a == AsCalled(t.raw[1])
            IN  /\ r.model = MODEL
                /\ r.prompt = a.prompt
                /\ r.config = [ number_of_images  |-> a.num_images,
                                image_size        |-> a.image_size,
                                aspect_ratio      |-> a.aspect_ratio,
                                person_generation |-> a.person_generation,
                                output_mime_type  |-> "image/png" ]

\* The request that supplies only the prompt "sunset" was dispatched with the
\* defaults.
C8_DefaultsDispatched ==
    \E p \in Tasks : LET t == task[p] IN
        /\ t.raw = <<SunsetRequest>> /\ t.request # <<>>
        /\ t.request[1].prompt.text = "sunset"
        /\ t.request[1].config.number_of_images = PyInt(4)
        /\ t.request[1].config.image_size = PyStr("1K")
        /\ t.request[1].config.aspect_ratio = PyStr("16:9")
        /\ t.request[1].config.person_generation = PyStr("allow_adult")

\* C9: a successful invocation emits, in this order and nothing else besides
\* log lines: the 'making request' notification, the provider request, the
\* final notification, whose count is the length of the returned list, and
\* then returns; and in any invocation the provider request is preceded by
\* the delivered 'making request' notification.
C9_SuccessfulOrder ==
    \A p \in Tasks : LET t == task[p] IN
        /\ t.outcome = "returned" =>
              /\ Observable(t) = << MakingRequestNote, RequestEvent,
                                    CtxInfo("Successfully generated images", Len(t.result), TRUE) >>
              /\ Last(t.events).kind = "ctx.info"
        /\ \A i \in 1..Len(t.events) :
              t.events[i].kind = "generate_images" =>
                  \E j \in 1..(i - 1) : t.events[j] = MakingRequestNote

\* The scenario: two entries with bytes, two images returned.
C9_TwoImagesDelivered ==
    \E p \in Tasks : LET t == task[p] IN
        /\ t.raw = <<FoxRequest>> /\ t.outcome = "returned"
        /\ Len(t.response[1].generated_images) = 2 /\ Len(t.result) = 2

====
